---------------------------- MODULE Spec2Model ----------------------------
(***************************************************************************)
(* Parcel locker service (src/main.py): the locker / cell records kept in  *)
(* the key-value store, the ParcelLocker methods and the HTTP handlers     *)
(* that call them.                                                         *)
(*                                                                         *)
(* A string whose characters matter (a PIN) is a sequence of code points:  *)
(* "111111" is <<49,49,49,49,49,49>>.  Identifiers that are only compared  *)
(* for equality (cell ids, field names, statuses) are TLA+ strings.        *)
(***************************************************************************)
EXTENDS Integers, Sequences, FiniteSets, TLC

VARIABLES
    lockerStore,  \* the store's locker:{lockerId} hashes
    cellStore,    \* the store's cell:{lockerId}_{cellId} hashes
    ret,          \* the last request handled and its response
    track,        \* whether this run keeps the history variable: fixed by Init
    touched,      \* history: per cell key, which requests were addressed to it
    procs,        \* interleaved requests: each worker's position and locals
    started,      \* interleaved requests: number of requests started so far
    hist,         \* interleaved requests: history of what the workers observed
    vPin,         \* validatePin on its own: the string under test
    vResult       \* validatePin on its own: the outcome

vars == <<lockerStore, cellStore, ret, track, touched, procs, started, hist,
          vPin, vResult>>

-----------------------------------------------------------------------------
(* Bounds of the model *)

\* how many of the 48 cells of locker 123 are modelled
MaxCells123 == 1

\* longest string handed to validatePin in SpecValidate
MaxPinLen == 7

\* how many requests the interleaved specification starts in one run
MaxRequests == 2

-----------------------------------------------------------------------------
(* Strings *)

Str(c, n) == [i \in 1..n |-> c]

\* code points: "1" = 49, "2" = 50, "x" = 120, "-" = 45, "\n" = 10,
\* ARABIC-INDIC DIGIT ONE = 1633
AsciiDigits == 48..57
\* the code points of Unicode category Nd (decimal digit) that the model's
\* alphabet can hit: the ASCII digits and the Arabic-Indic digits
UnicodeDigits == (48..57) \cup (1632..1641)

CLOSED_CELL == "closed"
OPEN_CELL == "open"
UNSET_PIN == Str(45, 6)     \* "------"
MASKED_PIN == Str(120, 6)   \* "xxxxxx"

\* a field the hash does not have: hget returns None
NO_STATUS == "none"
NO_PIN == <<>>

PIN_1 == Str(49, 6)                 \* "111111"
PIN_1_NL == Str(49, 6) \o <<10>>    \* "111111\n"

\* the request bodies' pin: two that validatePin lets through, and one more
GoodPins == {PIN_1, PIN_1_NL}
PinInputs == GoodPins \cup {MASKED_PIN}

-----------------------------------------------------------------------------
(* Lockers and cells *)

AllCells123 ==
    <<"C-3326", "C-3327", "C-3328", "C-3329", "C-3330", "C-3331", "C-3332",
      "C-3333", "C-3334", "C-3335", "C-3336", "C-3337", "C-3338", "C-3339",
      "C-3340", "C-3341", "C-3342", "C-3343", "C-3344", "C-3345", "C-3346",
      "C-3347", "C-3348", "C-3349", "C-3350", "C-3351", "C-3352", "C-3353",
      "C-3354", "C-3355", "C-3356", "C-3357", "C-3358", "C-3359", "C-3360",
      "C-3361", "C-3362", "C-3363", "C-3364", "C-3365", "C-3366", "C-3367",
      "C-3368", "C-3369", "C-3370", "C-3371", "C-3372", "C-3373">>

Range(s) == {s[i] : i \in 1..Len(s)}

\* the two hmset calls at module load; 'cells' is the comma-joined list, kept
\* here as the sequence that split(',') gives back (no cell id has a comma)
InitialLockers ==
    {[lockerId |-> 1234, cells |-> <<"C-001", "C-002">>],
     [lockerId |-> 123, cells |-> SubSeq(AllCells123, 1, MaxCells123)]}

\* the locker ids requests carry: the provisioned ones and one more
Provisioned == {l.lockerId : l \in InitialLockers}
LockerIds == Provisioned \cup {9999}

\* the (locker_id, cell_id) paths requests carry: every cell of every
\* provisioned locker, a cell id locker 1234 does not have, and a cell of a
\* locker that was never provisioned
MemberTargets ==
    UNION {{<<l.lockerId, c>> : c \in Range(l.cells)} : l \in InitialLockers}
Targets == MemberTargets \cup {<<1234, "C-999">>, <<9999, "C-001">>}

\* f"cell:{lockerId}_{cellId}": lockerId is an int, so its decimal form has no
\* "_" and the key determines the pair; the pair stands for the key
CellKey(lockerId, cellId) == <<lockerId, cellId>>
CellKeys == {CellKey(t[1], t[2]) : t \in Targets}

NoLocker == [lockerId |-> -1, cells |-> <<>>]
EmptyHash == [status |-> NO_STATUS, pin |-> NO_PIN]

hset(store, hkey, field, value) == [store EXCEPT ![hkey][field] = value]


-----------------------------------------------------------------------------
(* ParcelLocker: every method is an operator from the store it reads to the *)
(* store it leaves, the exception it raises ("OK" for none), the hset calls *)
(* it made and the values it returns.                                      *)

OK == "OK"

Outcome(err, store, writes, status, pin, cellId) ==
    [err |-> err, store |-> store, writes |-> writes,
     status |-> status, pin |-> pin, cellId |-> cellId]

\* re.compile('^\\d{6}$').match(pin): six characters of class \d (for a str
\* pattern, any Unicode decimal digit) from the start, then the end of the
\* string or a single "\n" that ends the string.  TRUE: no exception.
validatePin(pin) ==
    /\ Len(pin) >= 6
    /\ \A i \in 1..6 : pin[i] \in UnicodeDigits
    /\ \/ Len(pin) = 6
       \/ Len(pin) = 7 /\ pin[7] = 10

initLocker(lockers, lockerId) ==
    LET rec == lockers[lockerId] IN
    IF rec = NoLocker \/ rec.lockerId # lockerId
    THEN [err |-> "LockerNotFound", cells |-> {}]
    ELSE [err |-> OK, cells |-> Range(rec.cells)]

\* initCell writing the masked sentinel, not "------", as the default pin
initCell_DefaultMasked(store, lockerId, cells, cellId) ==
    LET hkey == CellKey(lockerId, cellId)
        fresh == store[hkey].status = NO_STATUS
        s1 == IF fresh
              THEN hset(hset(store, hkey, "status", CLOSED_CELL), hkey, "pin", MASKED_PIN)
              ELSE store
        w1 == IF fresh THEN <<<<hkey, "status">>, <<hkey, "pin">>>> ELSE <<>>
    IN  IF cellId \notin cells
        THEN Outcome("CellNotFound", store, <<>>, NO_STATUS, NO_PIN, cellId)
        ELSE IF s1[hkey].pin = NO_PIN
        THEN Outcome("ServerError", s1, w1, NO_STATUS, NO_PIN, cellId)
        ELSE Outcome(OK, s1, w1, s1[hkey].status, s1[hkey].pin, cellId)

\* initCell with the membership test "cellId not in self._cells" left out
initCell_NoMembership(store, lockerId, cells, cellId) ==
    LET hkey == CellKey(lockerId, cellId)
        fresh == store[hkey].status = NO_STATUS
        s1 == IF fresh
              THEN hset(hset(store, hkey, "status", CLOSED_CELL), hkey, "pin", UNSET_PIN)
              ELSE store
        w1 == IF fresh THEN <<<<hkey, "status">>, <<hkey, "pin">>>> ELSE <<>>
    IN  IF s1[hkey].pin = NO_PIN
        THEN Outcome("ServerError", s1, w1, NO_STATUS, NO_PIN, cellId)
        ELSE Outcome(OK, s1, w1, s1[hkey].status, s1[hkey].pin, cellId)

\* initCell with the "not yet initialised" test dropped: the defaults are
\* written on every call
initCell_AlwaysInit(store, lockerId, cells, cellId) ==
    LET hkey == CellKey(lockerId, cellId)
        s1 == hset(hset(store, hkey, "status", CLOSED_CELL), hkey, "pin", UNSET_PIN)
    IN  IF cellId \notin cells
        THEN Outcome("CellNotFound", store, <<>>, NO_STATUS, NO_PIN, cellId)
        ELSE Outcome(OK, s1, <<<<hkey, "status">>, <<hkey, "pin">>>>,
                     CLOSED_CELL, UNSET_PIN, cellId)

initCell(store, lockerId, cells, cellId) ==
    LET hkey == CellKey(lockerId, cellId)
        fresh == store[hkey].status = NO_STATUS
        s1 == IF fresh
              THEN hset(hset(store, hkey, "status", CLOSED_CELL), hkey, "pin", UNSET_PIN)
              ELSE store
        w1 == IF fresh THEN <<<<hkey, "status">>, <<hkey, "pin">>>> ELSE <<>>
    IN  IF cellId \notin cells
        THEN Outcome("CellNotFound", store, <<>>, NO_STATUS, NO_PIN, cellId)
        ELSE IF s1[hkey].pin = NO_PIN
        \* r.hget(hkey, "pin") is None: .decode() raises AttributeError
        THEN Outcome("ServerError", s1, w1, NO_STATUS, NO_PIN, cellId)
        ELSE Outcome(OK, s1, w1, s1[hkey].status, s1[hkey].pin, cellId)

\* order: the order in which the loop meets the elements of the set _cells
RECURSIVE scanPins(_, _, _, _, _)
scanPins(store, lockerId, order, skipCellId, acc) ==
    IF order = <<>> THEN acc
    ELSE LET anotherCellId == Head(order)
             pin == store[CellKey(lockerId, anotherCellId)].pin
             m == acc.pinToCellId
             next == IF anotherCellId # skipCellId /\ pin # NO_PIN
                     THEN [allPins |-> acc.allPins \cup {pin},
                           pinToCellId |->
                               [p \in DOMAIN m \cup {pin} |->
                                   IF p = pin THEN anotherCellId ELSE m[p]]]
                     ELSE acc
         IN scanPins(store, lockerId, Tail(order), skipCellId, next)

\* getAllPins reading the pin of every cell hash in the store, those of the
\* other lockers too, not only the cells of self._cells
getAllPins_AllLockers(store, lockerId, order, skipCellId) ==
    LET keys == {k \in DOMAIN store :
                    /\ ~(k[1] = lockerId /\ k[2] = skipCellId)
                    /\ store[k].pin # NO_PIN}
        pins == {store[k].pin : k \in keys}
    IN  [allPins |-> pins,
         pinToCellId |->
             [p \in pins |-> (CHOOSE k \in keys : store[k].pin = p)[2]]]

\* getAllPins with the skipCellId test dropped: the cell itself is scanned too
getAllPins_NoSkip(store, lockerId, order, skipCellId) ==
    scanPins(store, lockerId, order, "",
             [allPins |-> {}, pinToCellId |-> <<>>])

getAllPins(store, lockerId, order, skipCellId) ==
    scanPins(store, lockerId, order, skipCellId,
             [allPins |-> {}, pinToCellId |-> <<>>])

\* setCellStatus with the "status differs" test left out: the status is
\* written on every call
setCellStatus_AlwaysWrite(store, lockers, lockerId, cellId, newStatus) ==
    LET l == initLocker(lockers, lockerId)
        c == initCell(store, lockerId, l.cells, cellId)
        hkey == CellKey(lockerId, cellId)
        s1 == hset(c.store, hkey, "status", newStatus)
        w1 == <<<<hkey, "status">>>>
        s2 == IF newStatus = CLOSED_CELL
              THEN hset(s1, hkey, "pin", MASKED_PIN) ELSE s1
        w2 == IF newStatus = CLOSED_CELL THEN <<<<hkey, "pin">>>> ELSE <<>>
    IN  IF l.err # OK
        THEN Outcome(l.err, store, <<>>, NO_STATUS, NO_PIN, cellId)
        ELSE IF c.err # OK THEN c
        ELSE Outcome(OK, s2, c.writes \o w1 \o w2, newStatus, NO_PIN, cellId)

\* setCellStatus with the pin masked only inside the "status differs" branch
setCellStatus_MaskOnChange(store, lockers, lockerId, cellId, newStatus) ==
    LET l == initLocker(lockers, lockerId)
        c == initCell(store, lockerId, l.cells, cellId)
        hkey == CellKey(lockerId, cellId)
        changed == c.status # newStatus
        s1 == IF changed THEN hset(c.store, hkey, "status", newStatus) ELSE c.store
        w1 == IF changed THEN <<<<hkey, "status">>>> ELSE <<>>
        s2 == IF changed /\ newStatus = CLOSED_CELL
              THEN hset(s1, hkey, "pin", MASKED_PIN) ELSE s1
        w2 == IF changed /\ newStatus = CLOSED_CELL THEN <<<<hkey, "pin">>>> ELSE <<>>
    IN  IF l.err # OK
        THEN Outcome(l.err, store, <<>>, NO_STATUS, NO_PIN, cellId)
        ELSE IF c.err # OK THEN c
        ELSE Outcome(OK, s2, c.writes \o w1 \o w2, newStatus, NO_PIN, cellId)

\* setCellStatus with the masking of the pin on close left out
setCellStatus_NoMask(store, lockers, lockerId, cellId, newStatus) ==
    LET l == initLocker(lockers, lockerId)
        c == initCell(store, lockerId, l.cells, cellId)
        hkey == CellKey(lockerId, cellId)
        changed == c.status # newStatus
        s1 == IF changed THEN hset(c.store, hkey, "status", newStatus) ELSE c.store
        w1 == IF changed THEN <<<<hkey, "status">>>> ELSE <<>>
    IN  IF l.err # OK
        THEN Outcome(l.err, store, <<>>, NO_STATUS, NO_PIN, cellId)
        ELSE IF c.err # OK THEN c
        ELSE Outcome(OK, s1, c.writes \o w1, newStatus, NO_PIN, cellId)

setCellStatus(store, lockers, lockerId, cellId, newStatus) ==
    LET l == initLocker(lockers, lockerId)
        c == initCell(store, lockerId, l.cells, cellId)
        hkey == CellKey(lockerId, cellId)
        s1 == IF c.status # newStatus
              THEN hset(c.store, hkey, "status", newStatus) ELSE c.store
        w1 == IF c.status # newStatus THEN <<<<hkey, "status">>>> ELSE <<>>
        s2 == IF newStatus = CLOSED_CELL
              THEN hset(s1, hkey, "pin", MASKED_PIN) ELSE s1
        w2 == IF newStatus = CLOSED_CELL THEN <<<<hkey, "pin">>>> ELSE <<>>
    IN  IF l.err # OK
        THEN Outcome(l.err, store, <<>>, NO_STATUS, NO_PIN, cellId)
        ELSE IF c.err # OK THEN c
        ELSE Outcome(OK, s2, c.writes \o w1 \o w2, newStatus, NO_PIN, cellId)

\* setCellPin writing the pin before the test for another holder
setCellPin_WriteFirst(store, lockers, lockerId, cellId, newPin, order) ==
    LET l == initLocker(lockers, lockerId)
        c == initCell(store, lockerId, l.cells, cellId)
        hkey == CellKey(lockerId, cellId)
        all == getAllPins(c.store, lockerId, order, cellId)
        s1 == hset(c.store, hkey, "pin", newPin)
        w1 == c.writes \o <<<<hkey, "pin">>>>
    IN  IF ~validatePin(newPin)
        THEN Outcome("InvalidPin", store, <<>>, NO_STATUS, NO_PIN, cellId)
        ELSE IF l.err # OK
        THEN Outcome(l.err, store, <<>>, NO_STATUS, NO_PIN, cellId)
        ELSE IF c.err # OK THEN c
        ELSE IF newPin \in all.allPins
        THEN Outcome("PinConflict", s1, w1, NO_STATUS, NO_PIN, cellId)
        ELSE Outcome(OK, s1, w1, c.status, newPin, cellId)

\* setCellPin writing the record whole, status closed with the new pin
setCellPin_ResetsStatus(store, lockers, lockerId, cellId, newPin, order) ==
    LET l == initLocker(lockers, lockerId)
        c == initCell(store, lockerId, l.cells, cellId)
        hkey == CellKey(lockerId, cellId)
        all == getAllPins(c.store, lockerId, order, cellId)
    IN  IF ~validatePin(newPin)
        THEN Outcome("InvalidPin", store, <<>>, NO_STATUS, NO_PIN, cellId)
        ELSE IF l.err # OK
        THEN Outcome(l.err, store, <<>>, NO_STATUS, NO_PIN, cellId)
        ELSE IF c.err # OK THEN c
        ELSE IF newPin \in all.allPins
        THEN Outcome("PinConflict", c.store, c.writes, NO_STATUS, NO_PIN, cellId)
        ELSE Outcome(OK, hset(hset(c.store, hkey, "status", CLOSED_CELL),
                              hkey, "pin", newPin),
                     c.writes \o <<<<hkey, "status">>, <<hkey, "pin">>>>,
                     c.status, newPin, cellId)

\* setCellPin with the "already defined for another cell" test left out
setCellPin_Unchecked(store, lockers, lockerId, cellId, newPin, order) ==
    LET l == initLocker(lockers, lockerId)
        c == initCell(store, lockerId, l.cells, cellId)
        hkey == CellKey(lockerId, cellId)
    IN  IF ~validatePin(newPin)
        THEN Outcome("InvalidPin", store, <<>>, NO_STATUS, NO_PIN, cellId)
        ELSE IF l.err # OK
        THEN Outcome(l.err, store, <<>>, NO_STATUS, NO_PIN, cellId)
        ELSE IF c.err # OK THEN c
        ELSE Outcome(OK, hset(c.store, hkey, "pin", newPin),
                     c.writes \o <<<<hkey, "pin">>>>, c.status, newPin, cellId)

setCellPin(store, lockers, lockerId, cellId, newPin, order) ==
    LET l == initLocker(lockers, lockerId)
        c == initCell(store, lockerId, l.cells, cellId)
        hkey == CellKey(lockerId, cellId)
        all == getAllPins(c.store, lockerId, order, cellId)
    IN  IF ~validatePin(newPin)
        THEN Outcome("InvalidPin", store, <<>>, NO_STATUS, NO_PIN, cellId)
        ELSE IF l.err # OK
        THEN Outcome(l.err, store, <<>>, NO_STATUS, NO_PIN, cellId)
        ELSE IF c.err # OK THEN c
        ELSE IF newPin \in all.allPins
        THEN Outcome("PinConflict", c.store, c.writes, NO_STATUS, NO_PIN, cellId)
        ELSE Outcome(OK, hset(c.store, hkey, "pin", newPin),
                     c.writes \o <<<<hkey, "pin">>>>, c.status, newPin, cellId)

\* enterPin using the pin up: the matched cell is opened and its pin masked
enterPin_ConsumesPin(store, lockers, lockerId, pin, order) ==
    LET l == initLocker(lockers, lockerId)
        all == getAllPins(store, lockerId, order, "")
        cellId == all.pinToCellId[pin]
        hkey == CellKey(lockerId, cellId)
    IN  IF ~validatePin(pin)
        THEN Outcome("InvalidPin", store, <<>>, NO_STATUS, NO_PIN, "")
        ELSE IF l.err # OK
        THEN Outcome(l.err, store, <<>>, NO_STATUS, NO_PIN, "")
        ELSE IF pin \notin all.allPins
        THEN Outcome("PinNoMatch", store, <<>>, NO_STATUS, NO_PIN, "")
        ELSE Outcome(OK, hset(hset(store, hkey, "status", OPEN_CELL),
                              hkey, "pin", MASKED_PIN),
                     <<<<hkey, "status">>, <<hkey, "pin">>>>, OPEN_CELL, pin, cellId)

\* enterPin opening the cell the scan met first instead of the matched one
enterPin_OpensFirst(store, lockers, lockerId, pin, order) ==
    LET l == initLocker(lockers, lockerId)
        all == getAllPins(store, lockerId, order, "")
        cellId == order[1]
        hkey == CellKey(lockerId, cellId)
    IN  IF ~validatePin(pin)
        THEN Outcome("InvalidPin", store, <<>>, NO_STATUS, NO_PIN, "")
        ELSE IF l.err # OK
        THEN Outcome(l.err, store, <<>>, NO_STATUS, NO_PIN, "")
        ELSE IF pin \notin all.allPins
        THEN Outcome("PinNoMatch", store, <<>>, NO_STATUS, NO_PIN, "")
        ELSE Outcome(OK, hset(store, hkey, "status", OPEN_CELL),
                     <<<<hkey, "status">>>>, OPEN_CELL, pin, cellId)

enterPin(store, lockers, lockerId, pin, order) ==
    LET l == initLocker(lockers, lockerId)
        all == getAllPins(store, lockerId, order, "")
        cellId == all.pinToCellId[pin]
        hkey == CellKey(lockerId, cellId)
    IN  IF ~validatePin(pin)
        THEN Outcome("InvalidPin", store, <<>>, NO_STATUS, NO_PIN, "")
        ELSE IF l.err # OK
        THEN Outcome(l.err, store, <<>>, NO_STATUS, NO_PIN, "")
        ELSE IF pin \notin all.allPins
        THEN Outcome("PinNoMatch", store, <<>>, NO_STATUS, NO_PIN, "")
        ELSE Outcome(OK, hset(store, hkey, "status", OPEN_CELL),
                     <<<<hkey, "status">>>>, OPEN_CELL, pin, cellId)

\* the orders a loop over the set cells can take
Orders(cells) ==
    {o \in [1..Cardinality(cells) -> cells] : Range(o) = cells}

\* the Orders of the locker's cell set (of the empty set when there is none)
LockerOrders(lockers, lockerId) == Orders(initLocker(lockers, lockerId).cells)

-----------------------------------------------------------------------------
(* The HTTP handlers, one request handled to completion per step *)

NoBody == [lockerId |-> -1, cellId |-> "", status |-> NO_STATUS, pin |-> NO_PIN,
           cells |-> {}]

\* CellDTO(lockerId, cellId, status, pin)
CellDTO(lockerId, cellId, status, pin) ==
    [lockerId |-> lockerId, cellId |-> cellId, status |-> status, pin |-> pin,
     cells |-> {}]

\* LockerDTO(lockerId, cells)
LockerDTO(lockerId, cells) ==
    [lockerId |-> lockerId, cellId |-> "", status |-> NO_STATUS, pin |-> NO_PIN,
     cells |-> cells]

\* the request (op, path and body parameters) and what was sent back
Response(op, lockerId, cellId, pin, err, writes, body) ==
    [op |-> op, lockerId |-> lockerId, cellId |-> cellId, pin |-> pin,
     err |-> err, writes |-> writes, body |-> IF err = OK THEN body ELSE NoBody]

NoResponse == Response("none", -1, "", NO_PIN, "none", <<>>, NoBody)

IsSentinel(pin) == pin \in {UNSET_PIN, MASKED_PIN}

\* history: a request addressed to the cell got as far as the cell's record
Touch(hkey, how) ==
    touched' = IF track # "touched" THEN touched
               ELSE [touched EXCEPT ![hkey] =
                        IF how = "get" /\ @ \in {"none", "get"} THEN "get"
                        ELSE "other"]

\* the variables of the other specifications
others == <<procs, started, hist, vPin, vResult>>

get_locker(locker_id) ==
    LET l == initLocker(lockerStore, locker_id) IN
    /\ ret' = Response("get_locker", locker_id, "", NO_PIN, l.err, <<>>,
                       LockerDTO(locker_id, l.cells))
    /\ UNCHANGED <<lockerStore, cellStore, track, touched, others>>

get_cell(locker_id, cell_id) ==
    LET l == initLocker(lockerStore, locker_id)
        c == IF l.err = OK
             THEN initCell(cellStore, locker_id, l.cells, cell_id)
             ELSE Outcome(l.err, cellStore, <<>>, NO_STATUS, NO_PIN, cell_id)
    IN  /\ cellStore' = c.store
        /\ ret' = Response("get_cell", locker_id, cell_id, NO_PIN, c.err, c.writes,
                           CellDTO(locker_id, cell_id, c.status, c.pin))
        /\ IF c.err = OK THEN Touch(CellKey(locker_id, cell_id), "get")
                         ELSE UNCHANGED touched
        /\ UNCHANGED <<lockerStore, track, others>>

open_cell(locker_id, cell_id) ==
    LET o == setCellStatus(cellStore, lockerStore, locker_id, cell_id, OPEN_CELL)
    IN  /\ cellStore' = o.store
        /\ ret' = Response("open_cell", locker_id, cell_id, NO_PIN, o.err, o.writes,
                           CellDTO(locker_id, cell_id, OPEN_CELL, NO_PIN))
        /\ IF o.err = OK THEN Touch(CellKey(locker_id, cell_id), "other")
                         ELSE UNCHANGED touched
        /\ UNCHANGED <<lockerStore, track, others>>

\* the body's pin is parsed and never read: it is not part of the model
close_cell(locker_id, cell_id) ==
    LET o == setCellStatus(cellStore, lockerStore, locker_id, cell_id, CLOSED_CELL)
    IN  /\ cellStore' = o.store
        /\ ret' = Response("close_cell", locker_id, cell_id, NO_PIN, o.err, o.writes,
                           CellDTO(locker_id, cell_id, CLOSED_CELL, NO_PIN))
        /\ IF o.err = OK THEN Touch(CellKey(locker_id, cell_id), "other")
                         ELSE UNCHANGED touched
        /\ UNCHANGED <<lockerStore, track, others>>

\* setCellPin reads only the set allPins of the scan, which no order changes:
\* one order stands for all
set_cell_pin(locker_id, cell_id, pin) ==
    \E order \in {CHOOSE o \in LockerOrders(lockerStore, locker_id) : TRUE} :
        LET o == setCellPin(cellStore, lockerStore, locker_id, cell_id, pin, order)
        IN  /\ cellStore' = o.store
            /\ ret' = Response("set_cell_pin", locker_id, cell_id, pin, o.err,
                               o.writes,
                               CellDTO(locker_id, cell_id, o.status, o.pin))
            /\ IF o.err \in {OK, "PinConflict"}
               THEN Touch(CellKey(locker_id, cell_id), "other")
               ELSE UNCHANGED touched
            /\ UNCHANGED <<lockerStore, track, others>>

enter_pin(locker_id, pin) ==
    \E order \in LockerOrders(lockerStore, locker_id) :
        LET o == enterPin(cellStore, lockerStore, locker_id, pin, order)
        IN  /\ cellStore' = o.store
            /\ ret' = Response("enter_pin", locker_id, "", pin, o.err, o.writes,
                               CellDTO(locker_id, o.cellId, OPEN_CELL, pin))
            /\ IF o.err = OK THEN Touch(CellKey(locker_id, o.cellId), "other")
                             ELSE UNCHANGED touched
            /\ UNCHANGED <<lockerStore, track, others>>

-----------------------------------------------------------------------------
(* Spec: requests handled one after the other *)

NoProcs == <<>>

\* the store after module load: the two locker hashes and no cell hash
InitLockers ==
    lockerStore = [id \in LockerIds |->
                     IF \E l \in InitialLockers : l.lockerId = id
                     THEN CHOOSE l \in InitialLockers : l.lockerId = id
                     ELSE NoLocker]

EmptyStore == [k \in CellKeys |-> EmptyHash]

\* no request handled yet
InitNoRequest(tracked) ==
    /\ track = tracked
    /\ ret = NoResponse
    /\ touched = [k \in CellKeys |-> "none"]

InitStore(tracked) ==
    /\ InitLockers
    /\ cellStore = EmptyStore
    /\ InitNoRequest(tracked)

\* no interleaved request
InitNoProcs ==
    /\ procs = NoProcs
    /\ started = 0
    /\ hist = <<>>

\* no string under test
InitNoValidate ==
    /\ vPin = <<>>
    /\ vResult = "none"

Init == InitStore("none") /\ InitNoProcs /\ InitNoValidate

\* requests addressed to the provisioned lockers and their cells, with pins
\* that pass validatePin
Next ==
    \/ \E l \in Provisioned : get_locker(l)
    \/ \E t \in MemberTargets : get_cell(t[1], t[2])
    \/ \E t \in MemberTargets : open_cell(t[1], t[2])
    \/ \E t \in MemberTargets : close_cell(t[1], t[2])
    \/ \E t \in MemberTargets, p \in GoodPins : set_cell_pin(t[1], t[2], p)
    \/ \E l \in Provisioned, p \in GoodPins : enter_pin(l, p)

Spec == Init /\ [][Next]_vars

\* the same, and requests whose path names a missing locker or cell or whose
\* pin validatePin refuses
NextAll ==
    \/ \E l \in LockerIds : get_locker(l)
    \/ \E t \in Targets : get_cell(t[1], t[2])
    \/ \E t \in Targets : open_cell(t[1], t[2])
    \/ \E t \in Targets : close_cell(t[1], t[2])
    \/ \E t \in Targets, p \in PinInputs : set_cell_pin(t[1], t[2], p)
    \/ \E l \in LockerIds, p \in PinInputs : enter_pin(l, p)

SpecAll == Init /\ [][NextAll]_vars

\* the same requests, with the history of which requests reached each cell
InitTouched == InitStore("touched") /\ InitNoProcs /\ InitNoValidate
SpecTouched == InitTouched /\ [][Next]_vars

\* The store outlives the service: module load writes the two locker hashes
\* and clears nothing, so cell hashes written before (under a cell set the
\* locker had then, or under a locker since removed) are still there.
StaleHash == [status |-> OPEN_CELL, pin |-> PIN_1]
StaleStore ==
    [k \in CellKeys |-> IF k \in MemberTargets THEN EmptyHash ELSE StaleHash]

InitStale ==
    /\ InitLockers
    /\ cellStore = StaleStore
    /\ InitNoRequest("none")
    /\ InitNoProcs
    /\ InitNoValidate

\* the request bodies' pin here: one validatePin lets through, and one it
\* refuses, the unset sentinel that initCell stores
ErrPins == {PIN_1, UNSET_PIN}

\* requests to every path, those that name a missing locker or cell too
NextErr ==
    \/ \E l \in LockerIds : get_locker(l)
    \/ \E t \in Targets : get_cell(t[1], t[2])
    \/ \E t \in Targets : open_cell(t[1], t[2])
    \/ \E t \in Targets : close_cell(t[1], t[2])
    \/ \E t \in Targets, p \in ErrPins : set_cell_pin(t[1], t[2], p)
    \/ \E l \in LockerIds, p \in ErrPins : enter_pin(l, p)

SpecStale == InitStale /\ [][NextErr]_vars

-----------------------------------------------------------------------------
(* SpecConc: two workers of the service share the store, and the store     *)
(* commands of their requests interleave.  A step is one store command     *)
(* (hget or hset) together with the local computation that follows it.     *)

Procs == {"w1", "w2"}

Idle ==
    [pc |-> "idle", op |-> "none", lockerId |-> -1, cellId |-> "", pin |-> NO_PIN,
     newStatus |-> NO_STATUS, cells |-> {}, todo |-> {}, allPins |-> {},
     pinToCellId |-> <<>>, cellStatus |-> NO_STATUS, cellPin |-> NO_PIN,
     err |-> "none", rcell |-> "", n |-> 0]

\* the interleaved requests are addressed to locker 1234
ConcTargets == {t \in MemberTargets : t[1] = 1234}

ConcRequests ==
    {[op |-> o, lockerId |-> t[1], cellId |-> t[2], pin |-> NO_PIN] :
        o \in {"get_cell", "open_cell", "close_cell"}, t \in ConcTargets}
    \cup {[op |-> "set_cell_pin", lockerId |-> t[1], cellId |-> t[2], pin |-> p] :
            t \in ConcTargets, p \in GoodPins}
    \cup {[op |-> "enter_pin", lockerId |-> 1234, cellId |-> "", pin |-> p] :
            p \in GoodPins}

\* the stores the interleaved requests start from: no cell record yet; the
\* records of locker 1234 created; and C-001 given the PIN "111111"
FreshStore ==
    [k \in CellKeys |->
        IF k \in ConcTargets THEN [status |-> CLOSED_CELL, pin |-> UNSET_PIN]
        ELSE EmptyHash]
PinStore == [FreshStore EXCEPT ![CellKey(1234, "C-001")].pin = PIN_1]
ConcStores == {EmptyStore, FreshStore, PinStore}

InitConc ==
    /\ InitLockers
    /\ cellStore \in ConcStores
    /\ InitNoRequest("none")
    /\ procs = [w \in Procs |-> Idle]
    /\ started = 0
    /\ hist = [store0 |-> cellStore, events |-> {}]
    /\ InitNoValidate

seqVars == <<lockerStore, ret, track, touched, vPin, vResult>>

Event(e) == hist' = [hist EXCEPT !.events = @ \cup e]

Done(me, err) == [me EXCEPT !.pc = "done", !.err = err]

\* a request arrives at worker w; setCellPin and enterPin begin with
\* validatePin, which reads nothing
Start(w) ==
    /\ procs[w].pc \in {"idle", "done"}
    /\ started < MaxRequests
    /\ \E req \in ConcRequests :
          LET me == [Idle EXCEPT !.op = req.op, !.lockerId = req.lockerId,
                                 !.cellId = req.cellId, !.pin = req.pin,
                                 !.newStatus =
                                     IF req.op = "open_cell" THEN OPEN_CELL
                                     ELSE IF req.op = "close_cell" THEN CLOSED_CELL
                                     ELSE NO_STATUS,
                                 !.n = procs[w].n + 1]
              bad == req.op \in {"set_cell_pin", "enter_pin"} /\ ~validatePin(req.pin)
          IN procs' = [procs EXCEPT ![w] =
                          IF bad THEN Done(me, "InvalidPin")
                          ELSE [me EXCEPT !.pc = "initLocker"]]
    /\ started' = started + 1
    /\ UNCHANGED <<cellStore, hist, seqVars>>

\* initLocker: the locker hash is read
InitLockerStep(w) ==
    LET me == procs[w]
        l == initLocker(lockerStore, me.lockerId)
    IN  /\ me.pc = "initLocker"
        /\ procs' = [procs EXCEPT ![w] =
              IF l.err # OK THEN Done(me, l.err)
              ELSE IF me.op = "enter_pin"
              THEN [me EXCEPT !.pc = "scan", !.cells = l.cells, !.todo = l.cells]
              ELSE [me EXCEPT !.pc = "initCell", !.cells = l.cells]]
        /\ UNCHANGED <<cellStore, started, hist, seqVars>>

\* initCell: the membership test and r.hget(hkey, "status")
InitCellCheck(w) ==
    LET me == procs[w]
        hkey == CellKey(me.lockerId, me.cellId)
    IN  /\ me.pc = "initCell"
        /\ procs' = [procs EXCEPT ![w] =
              IF me.cellId \notin me.cells THEN Done(me, "CellNotFound")
              ELSE IF cellStore[hkey].status = NO_STATUS
              THEN [me EXCEPT !.pc = "initSetStatus"]
              ELSE [me EXCEPT !.pc = "readStatus"]]
        /\ UNCHANGED <<cellStore, started, hist, seqVars>>

\* initCell: r.hset(hkey, "status", CLOSED_CELL)
InitCellSetStatus(w) ==
    LET me == procs[w]
        hkey == CellKey(me.lockerId, me.cellId)
        old == cellStore[hkey].status
    IN  /\ me.pc = "initSetStatus"
        /\ cellStore' = hset(cellStore, hkey, "status", CLOSED_CELL)
        /\ procs' = [procs EXCEPT ![w].pc = "initSetPin"]
        /\ Event((IF old # NO_STATUS THEN {"initTwice"} ELSE {})
                    \cup (IF old = OPEN_CELL THEN {"defaultOverwrote"} ELSE {}))
        /\ UNCHANGED <<started, seqVars>>

\* initCell: r.hset(hkey, "pin", "------")
InitCellSetPin(w) ==
    LET me == procs[w]
        hkey == CellKey(me.lockerId, me.cellId)
        old == cellStore[hkey].pin
    IN  /\ me.pc = "initSetPin"
        /\ cellStore' = hset(cellStore, hkey, "pin", UNSET_PIN)
        /\ procs' = [procs EXCEPT ![w].pc = "readStatus"]
        /\ Event((IF old # NO_PIN THEN {"initTwice"} ELSE {})
                    \cup (IF old \notin {NO_PIN, UNSET_PIN}
                          THEN {"defaultOverwrote"} ELSE {}))
        /\ UNCHANGED <<started, seqVars>>

\* initCell: cellStatus = r.hget(hkey, "status").decode()
ReadStatus(w) ==
    LET me == procs[w]
        hkey == CellKey(me.lockerId, me.cellId)
    IN  /\ me.pc = "readStatus"
        /\ procs' = [procs EXCEPT ![w] =
              [me EXCEPT !.pc = "readPin", !.cellStatus = cellStore[hkey].status]]
        /\ UNCHANGED <<cellStore, started, hist, seqVars>>

\* what the caller of initCell does up to its next store command
AfterInitCell(me) ==
    IF me.op = "get_cell" THEN Done(me, OK)
    ELSE IF me.op \in {"open_cell", "close_cell"}
    THEN IF me.cellStatus # me.newStatus THEN [me EXCEPT !.pc = "writeStatus"]
         ELSE IF me.newStatus = CLOSED_CELL THEN [me EXCEPT !.pc = "maskPin"]
         ELSE Done(me, OK)
    ELSE IF me.cells \ {me.cellId} = {} THEN [me EXCEPT !.pc = "writePin"]
    ELSE [me EXCEPT !.pc = "scan", !.todo = me.cells \ {me.cellId}]

\* initCell: cellPin = r.hget(hkey, "pin").decode(); None has no decode
ReadPin(w) ==
    LET me == procs[w]
        hkey == CellKey(me.lockerId, me.cellId)
        pin == cellStore[hkey].pin
    IN  /\ me.pc = "readPin"
        /\ procs' = [procs EXCEPT ![w] =
              IF pin = NO_PIN THEN Done(me, "ServerError")
              ELSE AfterInitCell([me EXCEPT !.cellPin = pin])]
        /\ IF pin = NO_PIN THEN Event({"sawStatusWithoutPin"}) ELSE UNCHANGED hist
        /\ UNCHANGED <<cellStore, started, seqVars>>

\* setCellStatus: r.hset(hkey, "status", newStatus)
WriteStatus(w) ==
    LET me == procs[w]
        hkey == CellKey(me.lockerId, me.cellId)
    IN  /\ me.pc = "writeStatus"
        /\ cellStore' = hset(cellStore, hkey, "status", me.newStatus)
        /\ procs' = [procs EXCEPT ![w] =
              IF me.newStatus = CLOSED_CELL THEN [me EXCEPT !.pc = "maskPin"]
              ELSE Done(me, OK)]
        /\ UNCHANGED <<started, hist, seqVars>>

\* setCellStatus: r.hset(hkey, "pin", "xxxxxx")
MaskPin(w) ==
    LET me == procs[w]
        hkey == CellKey(me.lockerId, me.cellId)
    IN  /\ me.pc = "maskPin"
        /\ cellStore' = hset(cellStore, hkey, "pin", MASKED_PIN)
        /\ procs' = [procs EXCEPT ![w] = Done(me, OK)]
        /\ UNCHANGED <<started, hist, seqVars>>

\* what the caller of getAllPins does up to its next store command
AfterScan(me) ==
    IF me.op = "set_cell_pin"
    THEN IF me.pin \in me.allPins THEN Done(me, "PinConflict")
         ELSE [me EXCEPT !.pc = "writePin"]
    ELSE IF me.pin \notin me.allPins THEN Done(me, "PinNoMatch")
         ELSE [me EXCEPT !.pc = "openCell", !.rcell = me.pinToCellId[me.pin]]

\* getAllPins: one turn of the loop, r.hget(hkey, "pin") of a cell the loop
\* has not met yet
Scan(w) ==
    LET me == procs[w] IN
    /\ me.pc = "scan"
    /\ \E anotherCellId \in me.todo :
          LET pin == cellStore[CellKey(me.lockerId, anotherCellId)].pin
              m == me.pinToCellId
              seen == IF pin # NO_PIN
                      THEN [me EXCEPT !.allPins = @ \cup {pin},
                                      !.pinToCellId =
                                          [q \in DOMAIN m \cup {pin} |->
                                              IF q = pin THEN anotherCellId ELSE m[q]]]
                      ELSE me
              left == [seen EXCEPT !.todo = @ \ {anotherCellId}]
          IN procs' = [procs EXCEPT ![w] =
                          IF left.todo = {} THEN AfterScan(left) ELSE left]
    /\ UNCHANGED <<cellStore, started, hist, seqVars>>

\* setCellPin: r.hset(hkey, "pin", newPin)
WritePin(w) ==
    LET me == procs[w]
        hkey == CellKey(me.lockerId, me.cellId)
    IN  /\ me.pc = "writePin"
        /\ cellStore' = hset(cellStore, hkey, "pin", me.pin)
        /\ procs' = [procs EXCEPT ![w] = Done(me, OK)]
        /\ UNCHANGED <<started, hist, seqVars>>

\* enterPin: r.hset(hkey, "status", OPEN_CELL) on the matched cell
OpenCell(w) ==
    LET me == procs[w]
        hkey == CellKey(me.lockerId, me.rcell)
    IN  /\ me.pc = "openCell"
        /\ cellStore' = hset(cellStore, hkey, "status", OPEN_CELL)
        /\ procs' = [procs EXCEPT ![w] = Done(me, OK)]
        /\ Event(IF cellStore[hkey].pin # me.pin THEN {"openedStale"} ELSE {})
        /\ UNCHANGED <<started, seqVars>>

NextConc ==
    \/ \E w \in Procs : Start(w)
    \/ \E w \in Procs : InitLockerStep(w)
    \/ \E w \in Procs : InitCellCheck(w)
    \/ \E w \in Procs : InitCellSetStatus(w)
    \/ \E w \in Procs : InitCellSetPin(w)
    \/ \E w \in Procs : ReadStatus(w)
    \/ \E w \in Procs : ReadPin(w)
    \/ \E w \in Procs : WriteStatus(w)
    \/ \E w \in Procs : MaskPin(w)
    \/ \E w \in Procs : Scan(w)
    \/ \E w \in Procs : WritePin(w)
    \/ \E w \in Procs : OpenCell(w)

SpecConc == InitConc /\ [][NextConc]_vars

-----------------------------------------------------------------------------
(* SpecValidate: validatePin applied to every string up to MaxPinLen *)

\* the characters of the strings under test:
\* "1", "x", "-", "\n" and ARABIC-INDIC DIGIT ONE
Alphabet == {49, 120, 45, 10, 1633}

PinStrings == UNION {[1..n -> Alphabet] : n \in 0..MaxPinLen}

InitValidate ==
    /\ InitStore("none")
    /\ InitNoProcs
    /\ vPin \in PinStrings
    /\ vResult = "none"

\* the call: it returns, or raises HTTPException(400)
validate_pin ==
    /\ vResult = "none"
    /\ vResult' = IF validatePin(vPin) THEN "accepted" ELSE "InvalidPin"
    /\ UNCHANGED <<lockerStore, cellStore, ret, track, touched, procs, started,
                   hist, vPin>>

NextValidate == validate_pin

SpecValidate == InitValidate /\ [][NextValidate]_vars

-----------------------------------------------------------------------------
(* What the claims speak of *)

CellsOf(lockerId) == Range(lockerStore[lockerId].cells)

PinOf(store, lockerId, cellId) == store[CellKey(lockerId, cellId)].pin

\* a pin that is a value of the field and none of the two sentinels
IsRealPin(pin) == pin # NO_PIN /\ ~IsSentinel(pin)

\* the cells of the locker whose stored pin is pin
Holders(store, lockerId, pin) ==
    {c \in CellsOf(lockerId) : PinOf(store, lockerId, c) = pin}

\* exactly six ASCII digits
SixAsciiDigits(pin) == Len(pin) = 6 /\ \A i \in 1..6 : pin[i] \in AsciiDigits

\* the status a cell reads as: a cell without a record reads as closed
StatusView(hash) == IF hash.status = NO_STATUS THEN CLOSED_CELL ELSE hash.status

-----------------------------------------------------------------------------
(* C1: in every state reached by requests handled one after the other, no  *)
(* two distinct cells of one locker hold the same non-sentinel PIN.        *)
C1_PinsUnique ==
    \A l \in Provisioned : \A c1, c2 \in CellsOf(l) :
        (c1 # c2 /\ PinOf(cellStore, l, c1) = PinOf(cellStore, l, c2))
            => ~IsRealPin(PinOf(cellStore, l, c1))

\* a second cell asked for a PIN its locker already holds and was refused,
\* while two cells of that locker hold (different) real PINs
C1_Witness ==
    /\ ret.op = "set_cell_pin" /\ ret.err = "PinConflict"
    /\ Holders(cellStore, ret.lockerId, ret.pin) # {}
    /\ \E c1, c2 \in CellsOf(ret.lockerId) :
          /\ c1 # c2
          /\ IsRealPin(PinOf(cellStore, ret.lockerId, c1))
          /\ IsRealPin(PinOf(cellStore, ret.lockerId, c2))

(* C5: right after a successful close request the cell is closed and its   *)
(* PIN is the masked sentinel, whatever the cell was before.               *)
C5_CloseMasks ==
    [][(ret'.op = "close_cell" /\ ret'.err = OK) =>
          LET hkey == CellKey(ret'.lockerId, ret'.cellId) IN
          /\ cellStore'[hkey].status = CLOSED_CELL
          /\ cellStore'[hkey].pin = MASKED_PIN]_vars

\* a close that found the cell already closed (only the pin was written)
C5_Witness ==
    /\ ret.op = "close_cell" /\ ret.err = OK
    /\ ret.writes = <<<<CellKey(ret.lockerId, ret.cellId), "pin">>>>
    /\ cellStore[CellKey(ret.lockerId, ret.cellId)] =
          [status |-> CLOSED_CELL, pin |-> MASKED_PIN]

(* C6: once a cell holding PIN p was closed, every enterPin(L, p) fails    *)
(* with PinNoMatch and opens no cell, until a setCellPin in L assigns p    *)
(* again.  Step by step: a successful close of a cell holding p leaves no  *)
(* cell of L holding p; a PIN no cell of L holds comes to be held only by  *)
(* a successful setCellPin(L, ., p); and while no cell of L holds p, every *)
(* enterPin(L, p) ends PinNoMatch and leaves the store as it was.          *)
C6_ClosedPinNoMatch ==
    [][/\ (ret'.op = "close_cell" /\ ret'.err = OK
            /\ IsRealPin(PinOf(cellStore, ret'.lockerId, ret'.cellId))) =>
              Holders(cellStore', ret'.lockerId,
                      PinOf(cellStore, ret'.lockerId, ret'.cellId)) = {}
       /\ \A l \in Provisioned, p \in GoodPins :
              (Holders(cellStore, l, p) = {} /\ Holders(cellStore', l, p) # {}) =>
                  /\ ret'.op = "set_cell_pin" /\ ret'.err = OK
                  /\ ret'.lockerId = l /\ ret'.pin = p
       /\ (ret'.op = "enter_pin" /\ ret'.lockerId \in Provisioned
            /\ Holders(cellStore, ret'.lockerId, ret'.pin) = {}) =>
              /\ ret'.err = "PinNoMatch"
              /\ cellStore' = cellStore]_vars

\* the PIN that the cell closed by the request before held was entered and
\* refused: the closed cell is masked and nothing holds the PIN
C6_Witness ==
    /\ ret.op = "enter_pin" /\ ret.err = "PinNoMatch"
    /\ Holders(cellStore, ret.lockerId, ret.pin) = {}
    /\ \E c \in CellsOf(ret.lockerId) :
          cellStore[CellKey(ret.lockerId, c)] =
              [status |-> CLOSED_CELL, pin |-> MASKED_PIN]

(* C7: a successful enterPin(L, p) returns the one cell of L whose PIN is  *)
(* p, sets its status to open and changes nothing else in the store.       *)
C7_EnterPinOpensMatch ==
    [][(ret'.op = "enter_pin" /\ ret'.err = OK) =>
          LET l == ret'.lockerId
              c == ret'.body.cellId
          IN  /\ Holders(cellStore, l, ret'.pin) = {c}
              /\ cellStore' =
                    [cellStore EXCEPT ![CellKey(l, c)].status = OPEN_CELL]]_vars

\* a PIN was entered while another cell of the locker held another real PIN
C7_Witness ==
    /\ ret.op = "enter_pin" /\ ret.err = OK
    /\ cellStore[CellKey(ret.lockerId, ret.body.cellId)] =
          [status |-> OPEN_CELL, pin |-> ret.pin]
    /\ \E d \in CellsOf(ret.lockerId) :
          /\ d # ret.body.cellId
          /\ IsRealPin(PinOf(cellStore, ret.lockerId, d))
          /\ cellStore[CellKey(ret.lockerId, d)].status = CLOSED_CELL

(* C8: setCellPin(L, c, p) with six ASCII digits p fails with PinConflict  *)
(* exactly when another cell of L holds p; otherwise it stores p in c,     *)
(* returns (the status c had, p) and leaves c's status as it was.          *)
C8_SetCellPin ==
    [][(ret'.op = "set_cell_pin" /\ SixAsciiDigits(ret'.pin)) =>
          LET l == ret'.lockerId
              c == ret'.cellId
              hkey == CellKey(l, c)
              held == Holders(cellStore, l, ret'.pin) \ {c} # {}
          IN  /\ ret'.err = IF held THEN "PinConflict" ELSE OK
              /\ StatusView(cellStore'[hkey]) = StatusView(cellStore[hkey])
              /\ ~held =>
                    /\ cellStore'[hkey].pin = ret'.pin
                    /\ ret'.body.pin = ret'.pin
                    /\ ret'.body.status = StatusView(cellStore[hkey])]_vars

\* an open cell was given the PIN it already holds: no conflict, still open
C8_Witness ==
    /\ ret.op = "set_cell_pin" /\ ret.err = OK /\ SixAsciiDigits(ret.pin)
    /\ ret.body.status = OPEN_CELL
    /\ cellStore[CellKey(ret.lockerId, ret.cellId)] =
          [status |-> OPEN_CELL, pin |-> ret.pin]
    /\ \E d \in CellsOf(ret.lockerId) :
          IsRealPin(PinOf(cellStore, ret.lockerId, d)) /\ d # ret.cellId

(* C9: get_cell on a cell that only get_cell requests have reached returns *)
(* (closed, unset sentinel) on every call; the first call writes the       *)
(* record once and no later call writes anything.                          *)
C9_GetCellIdempotent ==
    [][(/\ ret'.op = "get_cell"
        /\ CellKey(ret'.lockerId, ret'.cellId) \in CellKeys
        /\ ret'.lockerId \in Provisioned
        /\ ret'.cellId \in CellsOf(ret'.lockerId)
        /\ touched[CellKey(ret'.lockerId, ret'.cellId)] \in {"none", "get"}) =>
          LET hkey == CellKey(ret'.lockerId, ret'.cellId) IN
          /\ ret'.err = OK
          /\ ret'.body.status = CLOSED_CELL
          /\ ret'.body.pin = UNSET_PIN
          /\ cellStore' = [cellStore EXCEPT
                              ![hkey] = [status |-> CLOSED_CELL, pin |-> UNSET_PIN]]
          /\ ret'.writes = IF touched[hkey] = "none"
                           THEN <<<<hkey, "status">>, <<hkey, "pin">>>>
                           ELSE <<>>]_vars

\* a repeated get_cell on a cell nothing else has reached: nothing written
C9_Witness ==
    /\ ret.op = "get_cell" /\ ret.err = OK
    /\ touched[CellKey(ret.lockerId, ret.cellId)] = "get"
    /\ ret.writes = <<>>
    /\ ret.body.status = CLOSED_CELL /\ ret.body.pin = UNSET_PIN

(* C10: validatePin accepts exactly the strings of six ASCII digits: it    *)
(* refuses six digits followed by a newline and digits outside ASCII.      *)
C10_ValidatePinExact ==
    vResult # "none" => (vResult = "accepted" <=> SixAsciiDigits(vPin))

-----------------------------------------------------------------------------
(* The interleaved requests *)

\* the stores a request handled on its own, from store, can leave
SeqApply(store, req) ==
    IF req.op = "get_cell"
    THEN LET l == initLocker(lockerStore, req.lockerId) IN
         {IF l.err = OK
          THEN initCell(store, req.lockerId, l.cells, req.cellId).store
          ELSE store}
    ELSE IF req.op \in {"open_cell", "close_cell"}
    THEN {setCellStatus(store, lockerStore, req.lockerId, req.cellId,
                        req.newStatus).store}
    ELSE IF req.op = "set_cell_pin"
    THEN {setCellPin(store, lockerStore, req.lockerId, req.cellId, req.pin,
                     o).store : o \in LockerOrders(lockerStore, req.lockerId)}
    ELSE {enterPin(store, lockerStore, req.lockerId, req.pin, o).store :
             o \in LockerOrders(lockerStore, req.lockerId)}

\* the stores the two requests, handled one after the other in either order,
\* can leave
SerialOutcomes(store, a, b) ==
    UNION {SeqApply(mid, b) : mid \in SeqApply(store, a)}
        \cup UNION {SeqApply(mid, a) : mid \in SeqApply(store, b)}

\* each worker has handled one request and no other was started
BothDone ==
    /\ started = 2
    /\ \A w \in Procs : procs[w].pc = "done" /\ procs[w].n = 1

(* C2: two interleaved setCellPin requests that assign one PIN to two      *)
(* different cells of a locker never both succeed, and the two cells never *)
(* both hold that PIN.                                                     *)
C2_SetCellPinAtomic ==
    \A w1, w2 \in Procs :
        (/\ w1 # w2
         /\ procs[w1].op = "set_cell_pin" /\ procs[w2].op = "set_cell_pin"
         /\ procs[w1].lockerId = procs[w2].lockerId
         /\ procs[w1].pin = procs[w2].pin
         /\ procs[w1].cellId # procs[w2].cellId) =>
            /\ ~(procs[w1].err = OK /\ procs[w2].err = OK)
            /\ ~(/\ PinOf(cellStore, procs[w1].lockerId, procs[w1].cellId)
                        = procs[w1].pin
                  /\ PinOf(cellStore, procs[w2].lockerId, procs[w2].cellId)
                        = procs[w2].pin)

(* C3: when two requests race to touch a cell first, none of them sees a   *)
(* record with a status and no pin, the defaults are written at most once, *)
(* and no default write replaces a status or PIN written by the other.     *)
C3_LazyInitAtomic ==
    hist.events \cap {"sawStatusWithoutPin", "initTwice", "defaultOverwrote"} = {}

(* C4: an enterPin interleaved with a setCellPin or a close on the same    *)
(* locker leaves a store that handling the two one after the other, in one *)
(* order or the other, leaves too; and enterPin never opens a cell whose   *)
(* PIN, when the status is written, is not the PIN entered.                *)
C4_EnterPinSerializable ==
    /\ "openedStale" \notin hist.events
    /\ \A w1, w2 \in Procs :
          (/\ BothDone
           /\ w1 # w2
           /\ procs[w1].op = "enter_pin"
           /\ procs[w2].op \in {"set_cell_pin", "close_cell"}) =>
              cellStore \in SerialOutcomes(hist.store0, procs[w1], procs[w2])

-----------------------------------------------------------------------------
(* Requests that name a missing locker or cell *)

\* the requests that go through initLocker and initCell
CellRequests == {"get_cell", "open_cell", "close_cell", "set_cell_pin"}

\* the locker has no record / the locker has one and the cell is not in it
LockerMissing(lockerId) == lockerStore[lockerId] = NoLocker
CellMissing(lockerId, cellId) ==
    ~LockerMissing(lockerId) /\ cellId \notin CellsOf(lockerId)

(* C11 as stated: getCell, setCellStatus and setCellPin on a locker with   *)
(* no record fail with LockerNotFound, and on a provisioned locker with a  *)
(* cell id outside its cell set fail with CellNotFound; in both cases the  *)
(* cell store is left as it was.                                           *)
C11_MissingAsStated ==
    [][(ret'.op \in CellRequests) =>
          /\ LockerMissing(ret'.lockerId) =>
                (ret'.err = "LockerNotFound" /\ cellStore' = cellStore)
          /\ CellMissing(ret'.lockerId, ret'.cellId) =>
                (ret'.err = "CellNotFound" /\ cellStore' = cellStore)]_vars

(* C11 amended: the same for getCell, setCellStatus, and setCellPin with a *)
(* pin that validatePin lets through; setCellPin with a pin it refuses     *)
(* fails with InvalidPin before the locker is looked up, and also leaves   *)
(* the cell store as it was.                                               *)
C11_MissingLockerOrCell ==
    [][(/\ ret'.op \in CellRequests
        /\ (LockerMissing(ret'.lockerId) \/ CellMissing(ret'.lockerId, ret'.cellId))) =>
          /\ cellStore' = cellStore
          /\ ret'.writes = <<>>
          /\ ret'.err =
                IF ret'.op = "set_cell_pin" /\ ~validatePin(ret'.pin) THEN "InvalidPin"
                ELSE IF LockerMissing(ret'.lockerId) THEN "LockerNotFound"
                ELSE "CellNotFound"]_vars

\* a close addressed to a cell id the locker does not have, under whose key
\* a record exists: refused, and the record is as it was
C11_Witness ==
    /\ ret.op = "close_cell" /\ ret.err = "CellNotFound"
    /\ CellMissing(ret.lockerId, ret.cellId)
    /\ cellStore[CellKey(ret.lockerId, ret.cellId)] = StaleHash

-----------------------------------------------------------------------------
(* The status of a cell *)

\* the request handled by the step succeeded and was addressed to the cell
Addressed(r, op, hkey) ==
    r.op = op /\ r.err = OK /\ CellKey(r.lockerId, r.cellId) = hkey

\* the request handled by the step was an enterPin that succeeded on the
\* cell: the cell is the one returned and it held the pin entered
Entered(r, store, hkey) ==
    /\ r.op = "enter_pin" /\ r.err = OK
    /\ CellKey(r.lockerId, r.body.cellId) = hkey
    /\ store[hkey].pin = r.pin

(* C12: the status of a cell (a cell without a record reading as closed)   *)
(* changes only from closed to open by a successful open request on the    *)
(* cell or a successful enterPin matching the cell, and only from open to  *)
(* closed by a successful close request on the cell; getCell, setCellPin,  *)
(* failed requests and requests addressed to other cells leave it.         *)
C12_StatusTransitions ==
    [][\A hkey \in CellKeys :
          LET before == StatusView(cellStore[hkey])
              after == StatusView(cellStore'[hkey])
          IN  before # after =>
                \/ /\ before = CLOSED_CELL /\ after = OPEN_CELL
                   /\ \/ Addressed(ret', "open_cell", hkey)
                      \/ Entered(ret', cellStore, hkey)
                \/ /\ before = OPEN_CELL /\ after = CLOSED_CELL
                   /\ Addressed(ret', "close_cell", hkey)]_vars

\* a cell that holds a real PIN and is open, after a setCellPin on another
\* cell of its locker was refused for that PIN
C12_Witness ==
    /\ ret.op = "set_cell_pin" /\ ret.err = "PinConflict"
    /\ \E c \in CellsOf(ret.lockerId) :
          /\ c # ret.cellId
          /\ cellStore[CellKey(ret.lockerId, c)] =
                [status |-> OPEN_CELL, pin |-> ret.pin]
    /\ cellStore[CellKey(ret.lockerId, ret.cellId)].status = CLOSED_CELL

\* the step handled a successful open or close request on a cell whose
\* record already had the status asked for
SameStatusRequest(r, store) ==
    /\ r.op \in {"open_cell", "close_cell"} /\ r.err = OK
    /\ store[CellKey(r.lockerId, r.cellId)].status = r.body.status

(* C13 as stated: setCellStatus asking for the status the cell already has *)
(* leaves the status and the PIN of the cell as they were; a close request *)
(* on a closed cell holding a real PIN leaves that PIN in place.           *)
C13_SameStatusAsStated ==
    [][SameStatusRequest(ret', cellStore) => cellStore' = cellStore]_vars

(* C13 amended: setCellStatus asking for the status the cell already has   *)
(* does not write the status and leaves it as it was; an open request on   *)
(* an open cell leaves the PIN too, a close request on a closed cell       *)
(* writes the masked sentinel over the PIN; no other cell changes.         *)
C13_SameStatusRequest ==
    [][SameStatusRequest(ret', cellStore) =>
          LET hkey == CellKey(ret'.lockerId, ret'.cellId) IN
          /\ \A i \in 1..Len(ret'.writes) : ret'.writes[i][2] # "status"
          /\ cellStore' =
                IF ret'.op = "open_cell" THEN cellStore
                ELSE [cellStore EXCEPT ![hkey].pin = MASKED_PIN]]_vars

\* an open request on a cell that is open and holds a real PIN: nothing
\* was written
C13_Witness ==
    /\ ret.op = "open_cell" /\ ret.err = OK /\ ret.writes = <<>>
    /\ cellStore[CellKey(ret.lockerId, ret.cellId)].status = OPEN_CELL
    /\ IsRealPin(PinOf(cellStore, ret.lockerId, ret.cellId))

-----------------------------------------------------------------------------
(* A cell without a record *)

\* the response to request r of the handler whose call of the ParcelLocker
\* method had the outcome o, and the store the call left
Answer(o, r) ==
    LET body == IF r.op \in {"get_cell", "set_cell_pin"}
                THEN CellDTO(r.lockerId, r.cellId, o.status, o.pin)
                ELSE IF r.op = "open_cell"
                THEN CellDTO(r.lockerId, r.cellId, OPEN_CELL, NO_PIN)
                ELSE IF r.op = "close_cell"
                THEN CellDTO(r.lockerId, r.cellId, CLOSED_CELL, NO_PIN)
                ELSE CellDTO(r.lockerId, o.cellId, OPEN_CELL, r.pin)
    IN  [err |-> o.err, body |-> IF o.err = OK THEN body ELSE NoBody,
         store |-> o.store]

\* what the handler of request r answers, and the store it leaves, when it
\* runs from store (order: the order of the scan of the locker's cells)
Handle(store, r, order) ==
    Answer(IF r.op = "get_cell"
           THEN LET l == initLocker(lockerStore, r.lockerId) IN
                IF l.err = OK
                THEN initCell(store, r.lockerId, l.cells, r.cellId)
                ELSE Outcome(l.err, store, <<>>, NO_STATUS, NO_PIN, r.cellId)
           ELSE IF r.op = "open_cell"
           THEN setCellStatus(store, lockerStore, r.lockerId, r.cellId, OPEN_CELL)
           ELSE IF r.op = "close_cell"
           THEN setCellStatus(store, lockerStore, r.lockerId, r.cellId, CLOSED_CELL)
           ELSE IF r.op = "set_cell_pin"
           THEN setCellPin(store, lockerStore, r.lockerId, r.cellId, r.pin, order)
           ELSE enterPin(store, lockerStore, r.lockerId, r.pin, order),
           r)

DefaultHash == [status |-> CLOSED_CELL, pin |-> UNSET_PIN]

\* two stores that differ at most in the cell hkey, which has no record in
\* one and the record (closed, unset sentinel) in the other
SameButRecord(s, v, hkey) ==
    /\ \A k \in CellKeys \ {hkey} : s[k] = v[k]
    /\ s[hkey] = v[hkey] \/ {s[hkey], v[hkey]} = {EmptyHash, DefaultHash}

\* the stores SameButRecord relates to s at hkey and that differ from s
Twins(s, hkey) ==
    IF s[hkey] = EmptyHash THEN {[s EXCEPT ![hkey] = DefaultHash]}
    ELSE IF s[hkey] = DefaultHash THEN {[s EXCEPT ![hkey] = EmptyHash]}
    ELSE {}

\* answer h, got from a twin of the store, is the answer r, and the store
\* it left is a twin of the store after
TwinAgrees(h, r, after, hkey) ==
    /\ h.err = r.err
    /\ h.body = r.body
    /\ SameButRecord(after, h.store, hkey)

\* the orders of the scan that can matter to the request: enterPin reads
\* the map the scan fills, setCellPin only the set of pins, the others
\* do not scan
ScanOrders(r) ==
    IF r.op = "enter_pin" THEN LockerOrders(lockerStore, r.lockerId)
    ELSE {CHOOSE o \in LockerOrders(lockerStore, r.lockerId) : TRUE}

(* C14: a cell with no record and a cell with the record (closed, unset    *)
(* sentinel) cannot be told apart: whatever request is handled next, from  *)
(* two stores that differ only in that, it gets the same answer (result or *)
(* error), and the stores it leaves again differ at most in that; so every *)
(* sequence of requests gets the same answers from both.                   *)
C14_NoRecordIsDefault ==
    [][(ret'.op \in CellRequests \cup {"enter_pin"}) =>
          \A hkey \in MemberTargets : \A v \in Twins(cellStore, hkey) :
              \A order \in ScanOrders(ret') :
                  TwinAgrees(Handle(v, ret', order), ret', cellStore', hkey)]_vars

\* a PIN was given to one cell while the other cell of the locker had no
\* record: with the record (closed, unset sentinel) there, the scan of the
\* pins meets the sentinel
C14_Witness ==
    /\ ret.op = "set_cell_pin" /\ ret.err = OK
    /\ \E c \in CellsOf(ret.lockerId) :
          /\ c # ret.cellId
          /\ cellStore[CellKey(ret.lockerId, c)] = EmptyHash

-----------------------------------------------------------------------------
(* The stored records *)

\* exactly six digits, of ASCII or not
SixDigits(pin) == Len(pin) = 6 /\ \A i \in 1..6 : pin[i] \in UnicodeDigits

(* C15: in every reachable state every stored cell record has a status     *)
(* that is closed or open and a pin that is the unset sentinel, the masked *)
(* sentinel or a string of exactly six digits.                             *)
C15_RecordsWellFormed ==
    \A hkey \in CellKeys :
        cellStore[hkey] # EmptyHash =>
            /\ cellStore[hkey].status \in {CLOSED_CELL, OPEN_CELL}
            /\ \/ IsSentinel(cellStore[hkey].pin)
               \/ SixDigits(cellStore[hkey].pin)

\* the status and pin a cell reads as: a cell without a record reads as
\* closed with the unset sentinel
RecordView(hash) == IF hash = EmptyHash THEN DefaultHash ELSE hash

(* C16: a request that fails (setCellPin with InvalidPin or PinConflict,   *)
(* enterPin with InvalidPin or PinNoMatch, any request with LockerNotFound *)
(* or CellNotFound) leaves the status and PIN every cell reads as, and a   *)
(* request that fails with InvalidPin writes nothing to the store.         *)
C16_FailedRequestKeepsCells ==
    [][(ret'.err # OK) =>
          /\ \A hkey \in CellKeys :
                RecordView(cellStore'[hkey]) = RecordView(cellStore[hkey])
          /\ ret'.err = "InvalidPin" =>
                (ret'.writes = <<>> /\ cellStore' = cellStore)]_vars

\* a setCellPin refused with PinConflict on a cell that had no record: the
\* defaults were written, and the cell reads as before
C16_Witness ==
    /\ ret.op = "set_cell_pin" /\ ret.err = "PinConflict"
    /\ Len(ret.writes) = 2
    /\ cellStore[CellKey(ret.lockerId, ret.cellId)] = DefaultHash

-----------------------------------------------------------------------------
(* One locker and another *)

\* the cells of the lockers other than lockerId whose stored pin is pin
HoldersElsewhere(store, lockerId, pin) ==
    {k \in MemberTargets : k[1] # lockerId /\ store[k].pin = pin}

(* C17: lockers are isolated.  A request addressed to locker L1 leaves the *)
(* record of every cell of every other locker; setCellPin(L1, c, p)        *)
(* succeeds when no other cell of L1 holds p, whatever the cells of other  *)
(* lockers hold; and the cell a successful enterPin(L1, p) returns and     *)
(* opens is a cell of L1.                                                  *)
C17_LockersIsolated ==
    [][(ret'.op \in CellRequests \cup {"enter_pin"}) =>
          LET l == ret'.lockerId IN
          /\ \A k \in CellKeys : k[1] # l => cellStore'[k] = cellStore[k]
          /\ (/\ ret'.op = "set_cell_pin"
              /\ Holders(cellStore, l, ret'.pin) \ {ret'.cellId} = {}) =>
                 ret'.err = OK
          /\ (ret'.op = "enter_pin" /\ ret'.err = OK) =>
                /\ ret'.body.cellId \in CellsOf(l)
                /\ cellStore'[CellKey(l, ret'.body.cellId)].status = OPEN_CELL
          /\ (ret'.op = "enter_pin" /\ Holders(cellStore, l, ret'.pin) = {}) =>
                ret'.err = "PinNoMatch"]_vars

\* a PIN was given to a cell of one locker while a cell of another locker
\* held the same PIN, and both hold it now
C17_Witness ==
    /\ ret.op = "set_cell_pin" /\ ret.err = OK
    /\ PinOf(cellStore, ret.lockerId, ret.cellId) = ret.pin
    /\ HoldersElsewhere(cellStore, ret.lockerId, ret.pin) # {}

-----------------------------------------------------------------------------
(* Requests repeated *)

\* request r asks for what request q asked for
SameRequest(r, q) ==
    /\ r.op = q.op /\ r.lockerId = q.lockerId
    /\ r.cellId = q.cellId /\ r.pin = q.pin

(* C18: setCellPin leaves the cell itself out of its test for another      *)
(* holder.  Giving cell c the PIN it already holds succeeds and leaves the *)
(* store as it was; and a setCellPin that repeats the successful one just  *)
(* handled gets the same result and leaves the store as it was.            *)
C18_SetCellPinAgain ==
    [][(ret'.op = "set_cell_pin") =>
          LET hkey == CellKey(ret'.lockerId, ret'.cellId) IN
          /\ cellStore[hkey].pin = ret'.pin =>
                /\ ret'.err = OK
                /\ ret'.body = CellDTO(ret'.lockerId, ret'.cellId,
                                       cellStore[hkey].status, ret'.pin)
                /\ cellStore' = cellStore
          /\ (ret.err = OK /\ SameRequest(ret', ret)) =>
                /\ ret'.err = OK
                /\ ret'.body = ret.body
                /\ cellStore' = cellStore]_vars

\* a setCellPin on a cell that had its record and holds the PIN asked for,
\* while the other cell of the locker holds another real PIN
C18_Witness ==
    /\ ret.op = "set_cell_pin" /\ ret.err = OK
    /\ ret.writes = <<<<CellKey(ret.lockerId, ret.cellId), "pin">>>>
    /\ cellStore[CellKey(ret.lockerId, ret.cellId)] =
          [status |-> CLOSED_CELL, pin |-> ret.pin]
    /\ \E d \in CellsOf(ret.lockerId) :
          /\ d # ret.cellId
          /\ IsRealPin(PinOf(cellStore, ret.lockerId, d))

\* the cell is open and holds the real PIN pin: what a successful
\* enterPin(lockerId, pin) that returned the cell leaves
OpenWith(store, lockerId, cellId, pin) ==
    /\ IsRealPin(pin)
    /\ store[CellKey(lockerId, cellId)] = [status |-> OPEN_CELL, pin |-> pin]

(* C19: entering a PIN does not use it up.  A successful enterPin(L, p)    *)
(* that returns cell c leaves c open with PIN p; c stays so until a close  *)
(* of c or a setCellPin on c; and while c is so, every enterPin(L, p)      *)
(* succeeds, returns c and leaves the store as it was.                     *)
C19_PinNotConsumed ==
    [][/\ (ret'.op = "enter_pin" /\ ret'.err = OK) =>
              OpenWith(cellStore', ret'.lockerId, ret'.body.cellId, ret'.pin)
       /\ \A k \in MemberTargets :
              (/\ OpenWith(cellStore, k[1], k[2], cellStore[k].pin)
               /\ cellStore'[k] # cellStore[k]) =>
                  /\ ret'.op \in {"close_cell", "set_cell_pin"}
                  /\ ret'.err = OK
                  /\ CellKey(ret'.lockerId, ret'.cellId) = k
       /\ ret'.op = "enter_pin" =>
              \A c \in CellsOf(ret'.lockerId) :
                  OpenWith(cellStore, ret'.lockerId, c, ret'.pin) =>
                      /\ ret'.err = OK
                      /\ ret'.body.cellId = c
                      /\ cellStore' = cellStore]_vars

\* a PIN was entered and the cell that holds it is open with it, while the
\* other cell of the locker was opened by an open request
C19_Witness ==
    /\ ret.op = "enter_pin" /\ ret.err = OK
    /\ OpenWith(cellStore, ret.lockerId, ret.body.cellId, ret.pin)
    /\ \E d \in CellsOf(ret.lockerId) :
          /\ d # ret.body.cellId
          /\ cellStore[CellKey(ret.lockerId, d)].status = OPEN_CELL
          /\ IsSentinel(PinOf(cellStore, ret.lockerId, d))

-----------------------------------------------------------------------------
(* The scan of the pins *)

\* the values getAllPins is called with on a locker: every order of the
\* loop, and as skipCellId a cell of the locker (setCellPin) or "" (enterPin)
SkipCellIds(lockerId) == CellsOf(lockerId) \cup {""}

(* C20: the set of pins and the map from pin to cell that getAllPins       *)
(* builds have an entry for every scanned cell whose PIN is a real PIN,    *)
(* none for a cell whose PIN is the unset or the masked sentinel, and none *)
(* that comes from the cell left out.                                      *)
C20_AllPinsOmitsSentinels ==
    \A l \in Provisioned : \A skip \in SkipCellIds(l) :
        \A order \in LockerOrders(lockerStore, l) :
            LET all == getAllPins(cellStore, l, order, skip)
                scanned == CellsOf(l) \ {skip}
            IN  /\ DOMAIN all.pinToCellId = all.allPins
                /\ \A c \in scanned :
                      IsRealPin(PinOf(cellStore, l, c)) =>
                          /\ PinOf(cellStore, l, c) \in all.allPins
                          /\ all.pinToCellId[PinOf(cellStore, l, c)] = c
                /\ \A p \in all.allPins :
                      /\ ~IsSentinel(p)
                      /\ all.pinToCellId[p] \in scanned

=============================================================================
